---- MODULE Spec2Model ----
(***************************************************************************)
(* ccextract: conversion of an iOS address-book database (ABPerson,        *)
(* ABMultiValue, ABMultiValueLabel, ABMultiValueEntry,                     *)
(* ABMultiValueEntryKey, ABGroup, ABGroupMembers) into vCard 4.0 files.    *)
(*                                                                         *)
(* A Python string is a sequence of one-character strings, so that         *)
(* escaping, joining and file naming are computed character by character.  *)
(* None (an SQL NULL) is the one-element sequence NULL, which no string of *)
(* characters equals.                                                      *)
(***************************************************************************)
EXTENDS Integers, Sequences, FiniteSets, TLC

----------------------------------------------------------------------------
(* String literals of the source.                                          *)

s_BEGIN == <<"B", "E", "G", "I", "N", ":", "V", "C", "A", "R", "D">>
s_VERSION == <<"V", "E", "R", "S", "I", "O", "N", ":", "4", ".", "0">>
s_END == <<"E", "N", "D", ":", "V", "C", "A", "R", "D">>
s_KIND == <<"K", "I", "N", "D", ":", "g", "r", "o", "u", "p">>
s_UID == <<"U", "I", "D", ":", "u", "r", "n", ":", "u", "u", "i", "d", ":">>
s_N == <<"N", ":">>
s_FN == <<"F", "N", ":">>
s_NICKNAME == <<"N", "I", "C", "K", "N", "A", "M", "E", ":">>
s_BDAY == <<"B", "D", "A", "Y", ":">>
s_TITLE == <<"T", "I", "T", "L", "E", ":">>
s_ORG == <<"O", "R", "G", ":">>
s_NOTE == <<"N", "O", "T", "E", ":">>
s_TEL == <<"T", "E", "L", ";", "T", "Y", "P", "E", "=">>
s_EMAIL == <<"E", "M", "A", "I", "L", ";", "T", "Y", "P", "E", "=">>
s_ADDR == <<"A", "D", "D", "R", ";", "T", "Y", "P", "E", "=">>
s_ANNIVERSARY == <<"A", "N", "N", "I", "V", "E", "R", "S", "A", "R", "Y">>
s_TYPEQ == <<";", "T", "Y", "P", "E", "=", "\"">>
s_URL == <<"U", "R", "L", ";", "T", "Y", "P", "E", "=">>
s_RELATED == <<"R", "E", "L", "A", "T", "E", "D", ";", "T", "Y", "P", "E", "=">>
s_VALUETEXT == <<";", "V", "A", "L", "U", "E", "=", "t", "e", "x", "t", ":">>
s_IMPP == <<"I", "M", "P", "P", ";", "T", "Y", "P", "E", "=">>
s_MEMBER == <<"M", "E", "M", "B", "E", "R", ":", "u", "r", "n", ":", "u", "u", "i", "d", ":">>
s_None == <<"N", "o", "n", "e">>
s_UNNAMED == <<"U", "N", "N", "A", "M", "E", "D">>
s_vcf == <<".", "v", "c", "f">>
s_dash == <<" ", "-", " ">>
s_bracket == <<"_", "$", "!", "<">>
s_anniversary == <<"a", "n", "n", "i", "v", "e", "r", "s", "a", "r", "y">>
k_Apartment == <<"A", "p", "a", "r", "t", "m", "e", "n", "t">>
k_Floor == <<"F", "l", "o", "o", "r">>
k_Street == <<"S", "t", "r", "e", "e", "t">>
k_ZIP == <<"Z", "I", "P">>
k_City == <<"C", "i", "t", "y">>
k_State == <<"S", "t", "a", "t", "e">>
k_Country == <<"C", "o", "u", "n", "t", "r", "y">>
k_service == <<"s", "e", "r", "v", "i", "c", "e">>
k_username == <<"u", "s", "e", "r", "n", "a", "m", "e">>

UPPERCASE == <<"A", "B", "C", "D", "E", "F", "G", "H", "I", "J", "K", "L", "M", "N", "O", "P", "Q", "R", "S", "T", "U", "V", "W", "X", "Y", "Z">>
LOWERCASE == <<"a", "b", "c", "d", "e", "f", "g", "h", "i", "j", "k", "l", "m", "n", "o", "p", "q", "r", "s", "t", "u", "v", "w", "x", "y", "z">>
DIGITS == <<"0", "1", "2", "3", "4", "5", "6", "7", "8", "9">>

CR == "\r"
LF == "\n"
BACKSLASH == "\\"
COMMA == ","

----------------------------------------------------------------------------
(* Python values and string operations.                                    *)

NULL == <<"<NULL>">>

\* Truth value of a string-or-None: None and "" are false.
Truthy(x) == x # NULL /\ x # <<>>

\* str(x) and "%s" % x for a string-or-None: None is rendered "None".
Str(x) == IF x = NULL THEN s_None ELSE x

\* s.replace(c, r) for a one-character c and a string r.
RECURSIVE Replace(_, _, _)
Replace(s, c, r) ==
  IF s = <<>> THEN <<>>
  ELSE (IF Head(s) = c THEN r ELSE <<Head(s)>>) \o Replace(Tail(s), c, r)

\* sep.join(parts)
RECURSIVE Join(_, _)
Join(parts, sep) ==
  IF parts = <<>> THEN <<>>
  ELSE IF Len(parts) = 1 THEN parts[1]
  ELSE parts[1] \o sep \o Join(Tail(parts), sep)

\* [x for x in parts if x]
RECURSIVE Present(_)
Present(parts) ==
  IF parts = <<>> THEN <<>>
  ELSE (IF Truthy(Head(parts)) THEN <<Head(parts)>> ELSE <<>>) \o Present(Tail(parts))

StartsWith(s, p) == Len(s) >= Len(p) /\ SubSeq(s, 1, Len(p)) = p

LowerChar(c) ==
  IF \E i \in 1..Len(UPPERCASE) : UPPERCASE[i] = c
  THEN LOWERCASE[CHOOSE i \in 1..Len(UPPERCASE) : UPPERCASE[i] = c]
  ELSE c

Lower(s) == [i \in 1..Len(s) |-> LowerChar(s[i])]

\* "%d" % n for n >= 0
RECURSIVE IntToStr(_)
IntToStr(n) ==
  IF n < 10 THEN <<DIGITS[n + 1]>>
  ELSE IntToStr(n \div 10) \o <<DIGITS[(n % 10) + 1]>>

\* "%02d" % n for n >= 0
Pad2(n) == IF n < 10 THEN <<"0">> \o IntToStr(n) ELSE IntToStr(n)

IsDigit(c) == \E i \in 1..Len(DIGITS) : DIGITS[i] = c
DigitValue(c) == (CHOOSE i \in 1..Len(DIGITS) : DIGITS[i] = c) - 1

IsNumeral(s) == s # NULL /\ s # <<>> /\ \A i \in 1..Len(s) : IsDigit(s[i])

RECURSIVE NumeralValue(_)
NumeralValue(s) ==
  IF s = <<>> THEN 0
  ELSE 10 * NumeralValue(SubSeq(s, 1, Len(s) - 1)) + DigitValue(s[Len(s)])

\* float(x) inside try/except: the number, or None when float() raises.  The
\* strings of the model are unsigned decimal numerals or not numbers at all.
ParseFloat(x) ==
  IF IsNumeral(x) THEN [ok |-> TRUE, n |-> NumeralValue(x)]
  ELSE [ok |-> FALSE, n |-> 0]

\* "%04d%02d%02d" of EPOCH + timedelta(seconds=n), EPOCH = 2001-01-01, for an
\* offset that stays within January 2001.
DateStr(n) == <<"2", "0", "0", "1", "0", "1">> \o Pad2(1 + (n \div 86400))

----------------------------------------------------------------------------
(* The database (read-only during a run), the output directories and the  *)
(* state of the script.                                                    *)

VARIABLES
  ABPerson,             \* sequence of rows, in the order fetchall() returns them
  ABMultiValue,         \* sequence of rows
  ABMultiValueLabel,    \* rowid -> value
  ABMultiValueEntry,    \* sequence of rows
  ABMultiValueEntryKey, \* rowid -> value
  ABGroup,              \* sequence of rows
  ABGroupMembers,       \* sequence of rows
  preexisting,          \* the paths that exist when the script starts
  files,                \* the paths that exist now
  uid_map,              \* contact ROWID -> generated uid
  uuid_clock,           \* number of uuid1() values handed out
  person_pos,           \* number of ABPerson rows the contact loop has taken
  group_pos,            \* number of ABGroup rows the group loop has taken
  status,               \* "running", or "aborted" by an uncaught exception
  exception,            \* the uncaught exception, "" while running
  log,                  \* the messages written at level INFO and above
  written,              \* one record per open(..., 'w'), in order
  card,                 \* lines and text of the file written last
  address,              \* the address list of the contact scanned last
  im                    \* the IM list of the contact scanned last

db == <<ABPerson, ABMultiValue, ABMultiValueLabel, ABMultiValueEntry,
        ABMultiValueEntryKey, ABGroup, ABGroupMembers, preexisting>>
vars == <<ABPerson, ABMultiValue, ABMultiValueLabel, ABMultiValueEntry,
          ABMultiValueEntryKey, ABGroup, ABGroupMembers, preexisting,
          files, uid_map, uuid_clock, person_pos, group_pos, status, exception,
          log, written, card, address, im>>

\* Property codes of ABMultiValue.property.
PROP_PHONE == 3
PROP_EMAIL == 4
PROP_ADDRESS == 5
PROP_DATE == 12
PROP_IM == 13
PROP_URL == 22
PROP_RELATED == 23
PROP_SOCIAL == 46

\* A label reference of ABMultiValue.label: NULL, an integer or a string.
LabelNull == [t |-> "null", n |-> 0, s |-> <<>>]
LabelInt(n) == [t |-> "int", n |-> n, s |-> <<>>]
LabelStr(s) == [t |-> "str", n |-> 0, s |-> s]

LabelTruthy(l) == (l.t = "int" /\ l.n # 0) \/ (l.t = "str" /\ l.s # <<>>)
LabelToStr(l) == IF l.t = "int" THEN IntToStr(l.n) ELSE IF l.t = "str" THEN l.s ELSE s_None

\* "col == ?" with a text parameter against an INTEGER column: the column's
\* affinity makes SQLite convert a text that is a numeral before comparing.
ParamMatches(col, param) == IsNumeral(param) /\ NumeralValue(param) = col

\* str(uuid.uuid1()): a fresh identifier, the n-th one handed out.
UuidStr(n) == <<"u">> \o IntToStr(n)

----------------------------------------------------------------------------
(* Label resolution (lines 250-260).                                       *)

\* SELECT value FROM ABMultiValueLabel l WHERE l.rowid == str(label)
LabelRows(l) == {r \in DOMAIN ABMultiValueLabel : ParamMatches(r, LabelToStr(l))}

\* value_type[4:-4].lower()
StripBrackets(s) == Lower(SubSeq(s, 5, Len(s) - 4))

\* The type token of a multi-value row; raised when value_type.startswith is
\* evaluated on an integer (an integer has no such attribute).
ResolveLabel(subrow) ==
  IF LabelTruthy(subrow.label)
  THEN IF LabelRows(subrow.label) = {}
       THEN IF subrow.label.t = "int"
            THEN [raised |-> TRUE, value_type |-> <<>>]
            ELSE [raised |-> FALSE,
                  value_type |-> IF StartsWith(subrow.label.s, s_bracket)
                                 THEN StripBrackets(subrow.label.s)
                                 ELSE subrow.label.s]
       ELSE LET v == ABMultiValueLabel[CHOOSE r \in LabelRows(subrow.label) : TRUE]
            IN [raised |-> FALSE,
                value_type |-> IF StartsWith(v, s_bracket) THEN StripBrackets(v) ELSE v]
  ELSE [raised |-> FALSE, value_type |-> <<>>]

----------------------------------------------------------------------------
(* The multi-value scan of one contact (lines 246-338).                    *)

\* A dict is the set of its <<key, value>> items.
DictPut(d, k, v) == {p \in d : p[1] # k} \cup {<<k, v>>}
DictGet(d, k, default) ==
  IF \E p \in d : p[1] = k THEN (CHOOSE p \in d : p[1] = k)[2] ELSE default

\* while len(address) <= addr_id: address.append([len(address) - 1, None, {}])
RECURSIVE ExtendAddress(_, _)
ExtendAddress(list, addr_id) ==
  IF Len(list) <= addr_id
  THEN ExtendAddress(Append(list, [id |-> Len(list) - 1, lbl |-> NULL, entry |-> {}]), addr_id)
  ELSE list

\* while len(im) <= im_id: im.append([len(im), None, {}])
RECURSIVE ExtendIm(_, _)
ExtendIm(list, im_id) ==
  IF Len(list) <= im_id
  THEN ExtendIm(Append(list, [id |-> Len(list), lbl |-> NULL, entry |-> {}]), im_id)
  ELSE list

\* if list[i][1] == None: list[i][1] = value_type;  list[i][2][sub_value_type] = value
Merge(list, i, value_type, sub_value_type, value) ==
  [list EXCEPT ![i + 1] =
     [id |-> @.id,
      lbl |-> IF @.lbl = NULL THEN value_type ELSE @.lbl,
      entry |-> DictPut(@.entry, sub_value_type, value)]]

AnniversaryLine(value_type, anniv) ==
  s_ANNIVERSARY
    \o (IF Lower(value_type) # s_anniversary THEN s_TYPEQ \o value_type \o <<"\"">> ELSE <<>>)
    \o <<":">> \o DateStr(anniv)

\* ScanPart with an address handled like a single-valued property: its line
\* is appended during the scan.
ScanPart_AddressInline(acc, subrow, value_type, value, sub_value_type) ==
  LET p == subrow.property
      anniv == ParseFloat(value)
  IN
  IF p = PROP_PHONE /\ Truthy(value)
  THEN [acc EXCEPT !.lines = Append(@, s_TEL \o value_type \o <<":">> \o value)]
  ELSE IF p = PROP_EMAIL /\ Truthy(value)
  THEN [acc EXCEPT !.lines = Append(@, s_EMAIL \o value_type \o <<":">> \o value)]
  ELSE IF p = PROP_ADDRESS /\ Truthy(value)
  THEN [acc EXCEPT !.lines = Append(@, s_ADDR \o value_type \o <<":">> \o value)]
  ELSE IF p = PROP_DATE /\ anniv.ok
  THEN [acc EXCEPT !.lines = Append(@, AnniversaryLine(value_type, anniv.n))]
  ELSE IF p = PROP_IM /\ Truthy(value)
  THEN [acc EXCEPT !.im =
          Merge(ExtendIm(@, subrow.identifier), subrow.identifier,
                value_type, sub_value_type, value)]
  ELSE IF p = PROP_URL /\ Truthy(value)
  THEN [acc EXCEPT !.lines = Append(@, s_URL \o value_type \o <<":">> \o value)]
  ELSE IF p = PROP_RELATED /\ Truthy(value)
  THEN [acc EXCEPT !.lines =
          Append(@, s_RELATED \o value_type \o s_VALUETEXT
                      \o Replace(value, COMMA, <<BACKSLASH, COMMA>>))]
  ELSE IF p = PROP_SOCIAL
  THEN [acc EXCEPT !.skipped_social_media = TRUE]
  ELSE acc

\* ScanPart without the "and value" guard of the address branch: a row
\* without a value still claims its bucket.
ScanPart_AddressWithoutValue(acc, subrow, value_type, value, sub_value_type) ==
  LET p == subrow.property
      anniv == ParseFloat(value)
  IN
  IF p = PROP_PHONE /\ Truthy(value)
  THEN [acc EXCEPT !.lines = Append(@, s_TEL \o value_type \o <<":">> \o value)]
  ELSE IF p = PROP_EMAIL /\ Truthy(value)
  THEN [acc EXCEPT !.lines = Append(@, s_EMAIL \o value_type \o <<":">> \o value)]
  ELSE IF p = PROP_ADDRESS
  THEN [acc EXCEPT !.address =
          Merge(ExtendAddress(@, subrow.identifier), subrow.identifier,
                value_type, sub_value_type, value)]
  ELSE IF p = PROP_DATE /\ anniv.ok
  THEN [acc EXCEPT !.lines = Append(@, AnniversaryLine(value_type, anniv.n))]
  ELSE IF p = PROP_IM /\ Truthy(value)
  THEN [acc EXCEPT !.im =
          Merge(ExtendIm(@, subrow.identifier), subrow.identifier,
                value_type, sub_value_type, value)]
  ELSE IF p = PROP_URL /\ Truthy(value)
  THEN [acc EXCEPT !.lines = Append(@, s_URL \o value_type \o <<":">> \o value)]
  ELSE IF p = PROP_RELATED /\ Truthy(value)
  THEN [acc EXCEPT !.lines =
          Append(@, s_RELATED \o value_type \o s_VALUETEXT
                      \o Replace(value, COMMA, <<BACKSLASH, COMMA>>))]
  ELSE IF p = PROP_SOCIAL
  THEN [acc EXCEPT !.skipped_social_media = TRUE]
  ELSE acc

\* The body of "for entry in sub_value_type_entries" (lines 284-338) for one
\* value and one sub-field name.
ScanPart(acc, subrow, value_type, value, sub_value_type) ==
  LET p == subrow.property
      anniv == ParseFloat(value)
  IN
  IF p = PROP_PHONE /\ Truthy(value)
  THEN [acc EXCEPT !.lines = Append(@, s_TEL \o value_type \o <<":">> \o value)]
  ELSE IF p = PROP_EMAIL /\ Truthy(value)
  THEN [acc EXCEPT !.lines = Append(@, s_EMAIL \o value_type \o <<":">> \o value)]
  ELSE IF p = PROP_ADDRESS /\ Truthy(value)
  THEN [acc EXCEPT !.address =
          Merge(ExtendAddress(@, subrow.identifier), subrow.identifier,
                value_type, sub_value_type, value)]
  ELSE IF p = PROP_DATE /\ anniv.ok
  THEN [acc EXCEPT !.lines = Append(@, AnniversaryLine(value_type, anniv.n))]
  ELSE IF p = PROP_IM /\ Truthy(value)
  THEN [acc EXCEPT !.im =
          Merge(ExtendIm(@, subrow.identifier), subrow.identifier,
                value_type, sub_value_type, value)]
  ELSE IF p = PROP_URL /\ Truthy(value)
  THEN [acc EXCEPT !.lines = Append(@, s_URL \o value_type \o <<":">> \o value)]
  ELSE IF p = PROP_RELATED /\ Truthy(value)
  THEN [acc EXCEPT !.lines =
          Append(@, s_RELATED \o value_type \o s_VALUETEXT
                      \o Replace(value, COMMA, <<BACKSLASH, COMMA>>))]
  ELSE IF p = PROP_SOCIAL
  THEN [acc EXCEPT !.skipped_social_media = TRUE]
  ELSE acc

\* SELECT * FROM ABMultiValueEntry e WHERE e.parent_id == str(subrow["UID"])
EntriesOf(subrow) ==
  LET Mine(e) == ParamMatches(e.parent_id, IntToStr(subrow.UID))
  IN SelectSeq(ABMultiValueEntry, Mine)

\* SELECT value FROM ABMultiValueEntryKey k WHERE k.rowid == str(key); "" when
\* there is no such row.
SubValueType(multivalueentry) ==
  LET rows == {r \in DOMAIN ABMultiValueEntryKey :
                 ParamMatches(r, IntToStr(multivalueentry.key))}
  IN IF rows = {} THEN <<>> ELSE ABMultiValueEntryKey[CHOOSE r \in rows : TRUE]

\* "for multivalueentry in entries" (lines 271-338)
RECURSIVE ScanEntries(_, _, _, _)
ScanEntries(acc, subrow, value_type, entries) ==
  IF entries = <<>> THEN acc
  ELSE ScanEntries(
         ScanPart(acc, subrow, value_type, Head(entries).value, SubValueType(Head(entries))),
         subrow, value_type, Tail(entries))

\* The body of "for subrow in ..." (lines 250-338) for one row.
ScanRow(acc, subrow) ==
  LET label == ResolveLabel(subrow)
      top_value == IF Truthy(subrow.value) THEN Str(subrow.value) ELSE <<>>
      entries == EntriesOf(subrow)
  IN IF label.raised THEN [acc EXCEPT !.raised = TRUE]
     ELSE IF entries = <<>>
     THEN ScanPart(acc, subrow, label.value_type, top_value, <<>>)
     ELSE ScanEntries(acc, subrow, label.value_type, entries)

RECURSIVE ScanRows(_, _)
ScanRows(acc, rows) ==
  IF rows = <<>> \/ acc.raised THEN acc
  ELSE ScanRows(ScanRow(acc, Head(rows)), Tail(rows))

\* SELECT * FROM ABMultiValue m WHERE m.record_id == str(row_id)
MultiValuesOf(row_id) ==
  LET Mine(m) == ParamMatches(m.record_id, IntToStr(row_id))
  IN SelectSeq(ABMultiValue, Mine)

\* The state of the scan after all multi-value rows of the contact: lines is
\* the contact's lines so far, raised tells that an exception left the loop.
Scan(lines, row_id) ==
  ScanRows([lines |-> lines, address |-> <<>>, im |-> <<>>,
            skipped_social_media |-> FALSE, raised |-> FALSE],
           MultiValuesOf(row_id))

----------------------------------------------------------------------------
(* The scalar fields of a contact (lines 183-242).                         *)

NameLines(row) ==
  IF Truthy(row.First) \/ Truthy(row.Last) \/ Truthy(row.Middle)
       \/ Truthy(row.Prefix) \/ Truthy(row.Suffix)
  THEN <<s_N \o Str(row.Last) \o <<";">> \o Str(row.First) \o <<";">> \o Str(row.Middle)
             \o <<";">> \o Str(row.Prefix) \o <<";">> \o Str(row.Suffix)>>
  ELSE <<>>

\* " ".join(x for x in (prefix, first_name, middle_name, last_name, suffix) if x)
FullName(row) ==
  Join(Present(<<row.Prefix, row.First, row.Middle, row.Last, row.Suffix>>), <<" ">>)

EscapeComma(x) == Replace(x, COMMA, <<BACKSLASH, COMMA>>)

NicknameLines(row) ==
  IF Truthy(row.Nickname) THEN <<s_NICKNAME \o EscapeComma(row.Nickname)>> ELSE <<>>

BirthdayLines(row) ==
  LET birthday == ParseFloat(row.Birthday)
  IN IF birthday.ok THEN <<s_BDAY \o DateStr(birthday.n)>> ELSE <<>>

TitleLines(row) ==
  IF Truthy(row.JobTitle) THEN <<s_TITLE \o EscapeComma(row.JobTitle)>> ELSE <<>>

Org(row) ==
  IF Truthy(row.Department) /\ Truthy(row.Organization)
  THEN Str(row.Organization) \o <<";">> \o Str(row.Department)
  ELSE IF Truthy(row.Organization) THEN Str(row.Organization)
  ELSE IF Truthy(row.Department) THEN Str(row.Department)
  ELSE NULL

OrgLines(row) ==
  IF Truthy(Org(row)) THEN <<s_ORG \o EscapeComma(Org(row))>> ELSE <<>>

NoteLines(row) ==
  IF Truthy(row.Note) THEN <<s_NOTE \o EscapeComma(row.Note)>> ELSE <<>>

ScalarLines(row, uid) ==
  <<s_BEGIN, s_VERSION, s_UID \o uid>>
    \o NameLines(row) \o <<s_FN \o FullName(row)>> \o NicknameLines(row)
    \o BirthdayLines(row) \o TitleLines(row) \o OrgLines(row) \o NoteLines(row)

----------------------------------------------------------------------------
(* Address and IM lines (lines 344-370).                                   *)

\* Python 3 exceptions have no attribute "message": evaluating e.message in
\* the except clause raises AttributeError, which nothing catches.
ExceptionHasMessage == FALSE

ADDRESS_KEYS == <<k_Apartment, k_Floor, k_Street, k_ZIP, k_City, k_State, k_Country>>
IM_KEYS == <<k_service, k_username>>

\* [entry.get(k, "") for k in keys]
Vals(entry, keys) == [i \in 1..Len(keys) |-> DictGet(entry, keys[i], <<>>)]

AddrLine(addr) == s_ADDR \o addr.lbl \o <<":">> \o Join(Vals(addr.entry, ADDRESS_KEYS), <<";">>)
ImppLine(im_entry) ==
  s_IMPP \o im_entry.lbl \o <<":">> \o Join(Vals(im_entry.entry, IM_KEYS), <<":">>)

InvalidBucket(b) == b.lbl = NULL /\ Cardinality(b.entry) = 0

\* "for addr in address" (lines 345-356); acc is [lines, warned, raised].
RECURSIVE EmitAddresses(_, _)
EmitAddresses(acc, list) ==
  IF list = <<>> \/ acc.raised THEN acc
  ELSE IF InvalidBucket(Head(list))
  THEN IF ExceptionHasMessage
       THEN EmitAddresses([acc EXCEPT !.warned = @ + 1], Tail(list))
       ELSE [acc EXCEPT !.raised = TRUE]
  ELSE EmitAddresses([acc EXCEPT !.lines = Append(@, AddrLine(Head(list)))], Tail(list))

\* "for im_entry in im" (lines 359-370)
RECURSIVE EmitIms(_, _)
EmitIms(acc, list) ==
  IF list = <<>> \/ acc.raised THEN acc
  ELSE IF InvalidBucket(Head(list))
  THEN IF ExceptionHasMessage
       THEN EmitIms([acc EXCEPT !.warned = @ + 1], Tail(list))
       ELSE [acc EXCEPT !.raised = TRUE]
  ELSE EmitIms([acc EXCEPT !.lines = Append(@, ImppLine(Head(list)))], Tail(list))

----------------------------------------------------------------------------
(* Serialisation and file naming (lines 375-395, 424-444).                 *)

\* EscapeLine without the removal of carriage returns.
EscapeLine_KeepsCR(x) == Replace(x, LF, <<BACKSLASH, "n">>)

\* x.replace("\n", "\\n").replace("\r", "")
EscapeLine(x) == Replace(Replace(x, LF, <<BACKSLASH, "n">>), CR, <<>>)
EscapeLines(lines) == [i \in 1..Len(lines) |-> EscapeLine(lines[i])]

\* "\r\n".join(lines) + "\r\n"
FileText(lines) == Join(lines, <<CR, LF>>) \o <<CR, LF>>

\* A path value: absolute in one of the two directories, or a bare file name.
Rel(name) == [abs |-> FALSE, dir |-> "", name |-> name]
\* os.path.join(dir, p): an absolute p discards dir.
PathJoin(dir, p) == IF p.abs THEN p ELSE [abs |-> TRUE, dir |-> dir, name |-> p.name]
\* os.path.exists(p)
Exists(fs, p) == p \in fs

OUTPUT_DIR == "output"
GROUP_DIR == "output/groups"

\* base_fn + " - %d" % cid + ".vcf"
Numbered(base_fn, cid) == base_fn \o s_dash \o IntToStr(cid) \o s_vcf

\* while (os.path.exists(fn)): cid += 1; fn = os.path.join(dir, ...)
RECURSIVE FreeCid(_, _, _, _)
FreeCid(fs, dir, base_fn, cid) ==
  IF Exists(fs, PathJoin(dir, Rel(Numbered(base_fn, cid))))
  THEN FreeCid(fs, dir, base_fn, cid + 1)
  ELSE cid

ContactBaseFn(row) ==
  LET joined == (IF Truthy(row.First) THEN row.First \o <<" ">> ELSE <<>>)
                  \o (IF Truthy(row.Middle) THEN row.Middle \o <<" ">> ELSE <<>>)
                  \o (IF Truthy(row.Last) THEN row.Last ELSE <<>>)
  IN IF joined = <<>> THEN s_UNNAMED ELSE joined

\* ContactFn with the counter tried once only: " - 2" whatever exists.
ContactFn_CounterTriedOnce(fs, base_fn) ==
  LET fn == PathJoin(OUTPUT_DIR, Rel(base_fn \o s_vcf))
  IN IF Exists(fs, fn)
     THEN PathJoin(OUTPUT_DIR, Rel(Numbered(base_fn, 2)))
     ELSE fn

\* fn of the contact loop (lines 382-388)
ContactFn(fs, base_fn) ==
  LET fn == PathJoin(OUTPUT_DIR, Rel(base_fn \o s_vcf))
  IN IF Exists(fs, fn)
     THEN PathJoin(OUTPUT_DIR, Rel(Numbered(base_fn, FreeCid(fs, OUTPUT_DIR, base_fn, 2))))
     ELSE fn

\* the path opened by the contact loop (line 394)
ContactOpenPath(fs, base_fn) == PathJoin(OUTPUT_DIR, ContactFn(fs, base_fn))

GroupBaseFn(name) == IF Str(name) = <<>> THEN s_UNNAMED ELSE Str(name)

\* fn of the group loop (lines 431-437)
GroupFn(fs, base_fn) ==
  LET fn == Rel(base_fn \o s_vcf)
  IN IF Exists(fs, PathJoin(GROUP_DIR, fn))
     THEN PathJoin(GROUP_DIR, Rel(Numbered(base_fn, FreeCid(fs, GROUP_DIR, base_fn, 2))))
     ELSE fn

\* the path opened by the group loop (line 443)
GroupOpenPath(fs, base_fn) == PathJoin(GROUP_DIR, GroupFn(fs, base_fn))

----------------------------------------------------------------------------
(* The contact loop (lines 180-395): one step per ABPerson row.            *)

Message(level, msg) == [level |-> level, msg |-> msg]

RECURSIVE Repeat(_, _)
Repeat(x, n) == IF n = 0 THEN <<>> ELSE <<x>> \o Repeat(x, n - 1)

\* MapPut that registers nothing.
MapPut_NotRegistered(m, k, v) == m

\* uid_map[row_id] = uid
MapPut(m, k, v) == [x \in DOMAIN m \cup {k} |-> IF x = k THEN v ELSE m[x]]

\* The exceptions that leave the contact loop.
NO_STARTSWITH == "AttributeError: 'int' object has no attribute 'startswith'"
NO_MESSAGE == "AttributeError: 'ValueError' object has no attribute 'message'"

ContactStep ==
  /\ status = "running"
  /\ person_pos < Len(ABPerson)
  /\ LET row == ABPerson[person_pos + 1]
         uid == UuidStr(uuid_clock + 1)
         scan == Scan(ScalarLines(row, uid), row.ROWID)
         social == IF scan.skipped_social_media
                   THEN <<Message("WARNING", "Could not transfer social media user information")>>
                   ELSE <<>>
         addrs == EmitAddresses([lines |-> scan.lines, warned |-> 0, raised |-> FALSE],
                                scan.address)
         addr_warnings == Repeat(Message("WARNING", "Left out invalid address"), addrs.warned)
         ims == EmitIms([lines |-> addrs.lines, warned |-> 0, raised |-> FALSE], scan.im)
         im_warnings == Repeat(Message("WARNING", "Left out invalid IM entry"), ims.warned)
         lines == EscapeLines(Append(ims.lines, s_END))
         base_fn == ContactBaseFn(row)
         path == ContactOpenPath(files, base_fn)
     IN /\ person_pos' = person_pos + 1
        /\ uuid_clock' = uuid_clock + 1
        /\ uid_map' = MapPut(uid_map, row.ROWID, uid)
        /\ address' = scan.address
        /\ im' = scan.im
        /\ IF scan.raised
           THEN /\ status' = "aborted"
                /\ exception' = NO_STARTSWITH
                /\ UNCHANGED <<log, files, written, card>>
           ELSE IF addrs.raised
           THEN /\ status' = "aborted"
                /\ exception' = NO_MESSAGE
                /\ log' = log \o social
                /\ UNCHANGED <<files, written, card>>
           ELSE IF ims.raised
           THEN /\ status' = "aborted"
                /\ exception' = NO_MESSAGE
                /\ log' = log \o social \o addr_warnings
                /\ UNCHANGED <<files, written, card>>
           ELSE /\ log' = log \o social \o addr_warnings \o im_warnings
                            \o <<Message("INFO", "Writing contact")>>
                /\ files' = files \cup {path}
                /\ written' = Append(written,
                                [kind |-> "contact", row |-> row.ROWID, dir |-> OUTPUT_DIR,
                                 base_fn |-> base_fn, path |-> path,
                                 existed |-> Exists(files, path)])
                /\ card' = [lines |-> lines, text |-> FileText(lines)]
                /\ UNCHANGED <<status, exception>>
  /\ UNCHANGED <<db, group_pos>>

----------------------------------------------------------------------------
(* The group loop (lines 398-444): one step per ABGroup row, after the     *)
(* contact loop has taken every ABPerson row.                              *)

\* cursor.execute("... WHERE group_id == ?", group_id) with group_id a str: the
\* string is taken as the sequence of parameters, one per character, and the
\* statement has one placeholder.
MemberQuery(group_id) ==
  IF Len(group_id) # 1
  THEN [raised |-> TRUE, rows |-> <<>>]
  ELSE LET Mine(m) == ParamMatches(m.group_id, <<group_id[1]>>)
       IN [raised |-> FALSE, rows |-> SelectSeq(ABGroupMembers, Mine)]

\* lines.append("MEMBER:urn:uuid:%s" % uid_map[member["member_id"]]) for every
\* member row; raised when uid_map has no such key.
RECURSIVE MemberLines(_, _)
MemberLines(acc, rows) ==
  IF rows = <<>> \/ acc.raised THEN acc
  ELSE IF Head(rows).member_id \in DOMAIN uid_map
  THEN MemberLines([acc EXCEPT !.lines = Append(@, s_MEMBER \o uid_map[Head(rows).member_id])],
                   Tail(rows))
  ELSE [acc EXCEPT !.raised = TRUE]

GroupStep ==
  /\ status = "running"
  /\ person_pos = Len(ABPerson)
  /\ group_pos < Len(ABGroup)
  /\ LET row == ABGroup[group_pos + 1]
         group_id == IntToStr(row.ROWID)
         name == row.Name
         query == MemberQuery(group_id)
         members == MemberLines([lines |-> <<s_BEGIN, s_VERSION, s_KIND, s_FN \o Str(name)>>,
                                 raised |-> FALSE], query.rows)
         lines == EscapeLines(Append(members.lines, s_END))
         base_fn == GroupBaseFn(name)
         path == GroupOpenPath(files, base_fn)
     IN /\ group_pos' = group_pos + 1
        /\ IF ~Truthy(name)
           THEN /\ log' = Append(log, Message("ERROR", "Cannot write an unnamed group"))
                /\ UNCHANGED <<status, exception, files, written, card>>
           ELSE IF query.raised
           THEN /\ status' = "aborted"
                /\ exception' = "ProgrammingError"
                /\ UNCHANGED <<log, files, written, card>>
           ELSE IF members.raised
           THEN /\ status' = "aborted"
                /\ exception' = "KeyError"
                /\ UNCHANGED <<log, files, written, card>>
           ELSE /\ log' = Append(log, Message("INFO", "Writing group"))
                /\ files' = files \cup {path}
                /\ written' = Append(written,
                                [kind |-> "group", row |-> row.ROWID, dir |-> GROUP_DIR,
                                 base_fn |-> base_fn, path |-> path,
                                 existed |-> Exists(files, path)])
                /\ card' = [lines |-> lines, text |-> FileText(lines)]
                /\ UNCHANGED <<status, exception>>
  /\ UNCHANGED <<db, uid_map, uuid_clock, person_pos, address, im>>

Next == ContactStep \/ GroupStep

\* The state of the script when the contact loop starts (line 178).
Start ==
  /\ files = preexisting
  /\ uid_map = <<>>
  /\ uuid_clock = 0
  /\ person_pos = 0
  /\ group_pos = 0
  /\ status = "running"
  /\ exception = ""
  /\ log = <<>>
  /\ written = <<>>
  /\ card = [lines |-> <<>>, text |-> <<>>]
  /\ address = <<>>
  /\ im = <<>>

----------------------------------------------------------------------------
(* Databases and output directories the script is run on.                  *)

MaxPersons == 3
MaxGroups == 2
MaxMembers == 2
MaxMV == 3
MaxLen == 2

BoundedSeq(S, n) == UNION {[1..k -> S] : k \in 0..n}

RECURSIVE Flatten(_)
Flatten(ss) == IF ss = <<>> THEN <<>> ELSE Head(ss) \o Flatten(Tail(ss))

\* An ABPerson row with the name columns n = <<First, Middle, Last, Prefix, Suffix>>.
PersonRow(id, n) ==
  [ROWID |-> id, First |-> n[1], Middle |-> n[2], Last |-> n[3], Prefix |-> n[4],
   Suffix |-> n[5], Nickname |-> NULL, Birthday |-> NULL, JobTitle |-> NULL,
   Organization |-> NULL, Department |-> NULL, Note |-> NULL]

GroupRow(id, name) == [ROWID |-> id, Name |-> name]

OutFile(name) == [abs |-> TRUE, dir |-> OUTPUT_DIR, name |-> name]
GroupFile(name) == [abs |-> TRUE, dir |-> GROUP_DIR, name |-> name]

NoMultiValues ==
  /\ ABMultiValue = <<>>
  /\ ABMultiValueLabel = <<>>
  /\ ABMultiValueEntry = <<>>
  /\ ABMultiValueEntryKey = <<>>

(* Names: contacts and groups that differ in their name columns, written   *)
(* into directories that may already hold files.                           *)

NameRows ==
  { <<NULL, NULL, NULL, NULL, NULL>>,
    <<<<>>, NULL, <<>>, NULL, <<>>>>,
    <<NULL, NULL, NULL, <<"D", "r">>, NULL>>,
    <<<<"A">>, NULL, NULL, NULL, NULL>>,
    <<NULL, NULL, <<"A">>, NULL, NULL>>,
    <<<<"A">>, NULL, <<"-", " ", "2">>, NULL, NULL>>,
    <<<<"A">>, <<"M">>, <<"A">>, NULL, NULL>>,
    <<NULL, <<"M">>, NULL, NULL, NULL>> }

GroupNames == { NULL, <<>>, <<"A">>, <<"A", " ", "-", " ", "2">> }

PreexistingSets ==
  { o \cup g : o \in SUBSET { OutFile(<<"A">> \o s_vcf), OutFile(Numbered(<<"A">>, 2)) },
               g \in SUBSET { GroupFile(<<"A">> \o s_vcf) } }

InitNames ==
  /\ NoMultiValues
  /\ ABGroupMembers = <<>>
  /\ preexisting \in PreexistingSets
  /\ \/ /\ \E names \in BoundedSeq(NameRows, MaxPersons) :
             ABPerson = [i \in 1..Len(names) |-> PersonRow(i, names[i])]
        /\ ABGroup = <<GroupRow(1, <<"A">>)>>
     \/ /\ ABPerson = <<PersonRow(1, <<NULL, NULL, <<"A">>, NULL, NULL>>)>>
        /\ \E names \in BoundedSeq(GroupNames, MaxGroups) :
             ABGroup = [i \in 1..Len(names) |-> GroupRow(i, names[i])]
  /\ Start

SpecNames == InitNames /\ [][Next]_vars

(* Groups: group rows with one- and two-digit row ids, and membership rows *)
(* that name contacts of the person table or none of them.                 *)

PersonIdSets == { {}, {1}, {2}, {1, 2} }
GroupIds == {1, 10}
MemberIds == {1, 2, 3}

RECURSIVE Ascending(_)
Ascending(S) ==
  IF S = {} THEN <<>>
  ELSE LET m == CHOOSE x \in S : \A y \in S : x <= y
       IN <<m>> \o Ascending(S \ {m})

InitGroups ==
  /\ NoMultiValues
  /\ preexisting = {}
  /\ \E ids \in PersonIdSets :
       /\ Cardinality(ids) <= MaxPersons
       /\ ABPerson = [i \in 1..Cardinality(ids) |->
                        PersonRow(Ascending(ids)[i], <<<<"A">>, NULL, NULL, NULL, NULL>>)]
  /\ \E gids \in BoundedSeq(GroupIds, MaxGroups) :
       /\ \A i, j \in 1..Len(gids) : i # j => gids[i] # gids[j]
       /\ \E names \in [1..Len(gids) -> {NULL, <<"G">>}] :
            ABGroup = [i \in 1..Len(gids) |-> GroupRow(gids[i], names[i])]
  /\ ABGroupMembers \in BoundedSeq([group_id : GroupIds, member_id : MemberIds], MaxMembers)
  /\ Start

SpecGroups == InitGroups /\ [][Next]_vars

(* Multi-values: one contact with multi-value rows of every kind, the      *)
(* rows in any order, followed by a second contact and a group.            *)

\* The label table and the sub-field key table.
LABELS == (1 :> <<"_", "$", "!", "<", "H", "o", "m", "e", ">", "!", "$", "_">>)
            @@ (2 :> <<"w", "o", "r", "k">>)
ENTRY_KEYS == (1 :> k_Street) @@ (2 :> k_City) @@ (3 :> k_service) @@ (4 :> k_username)

\* A multi-value row and its ABMultiValueEntry rows, before the row has its UID.
Shape(property, identifier, label, value, entries) ==
  [property |-> property, identifier |-> identifier, label |-> label, value |-> value,
   entries |-> entries]
Part(key, value) == [key |-> key, value |-> value]

FlatShapes ==
  { Shape(p, 0, LabelNull, <<"v">>, <<>>) : p \in {PROP_PHONE, PROP_EMAIL, PROP_URL, PROP_RELATED} }
    \cup { Shape(PROP_DATE, 0, LabelNull, <<"0">>, <<>>),
           Shape(PROP_SOCIAL, 0, LabelNull, <<"v">>, <<>>) }

LabelledShapes ==
  { Shape(PROP_PHONE, 0, l, <<"v">>, <<>>) :
      l \in {LabelInt(1), LabelInt(2), LabelInt(7), LabelStr(<<"x">>)} }

AddressShapes ==
  { Shape(PROP_ADDRESS, 0, LabelNull, <<"v">>, <<>>),
    Shape(PROP_ADDRESS, 0, LabelInt(1), NULL, <<>>),
    Shape(PROP_ADDRESS, 0, LabelInt(1), NULL, <<Part(1, <<"s">>), Part(2, NULL)>>),
    Shape(PROP_ADDRESS, 1, LabelNull, <<"v">>, <<>>) }

ImShapes ==
  { Shape(PROP_IM, i, LabelNull, NULL, <<Part(3, <<"x">>), Part(4, <<"u">>)>>) : i \in {0, 1} }
    \cup { Shape(PROP_IM, 0, LabelInt(1), NULL, <<>>) }

MultiValueShapes == FlatShapes \cup LabelledShapes \cup AddressShapes \cup ImShapes

MultiValueRows(record_id, shapes) ==
  [i \in 1..Len(shapes) |->
     [UID |-> i, record_id |-> record_id, property |-> shapes[i].property,
      identifier |-> shapes[i].identifier, label |-> shapes[i].label,
      value |-> shapes[i].value]]

MultiValueEntryRows(shapes) ==
  Flatten([i \in 1..Len(shapes) |->
             [j \in 1..Len(shapes[i].entries) |->
                [parent_id |-> i, key |-> shapes[i].entries[j].key,
                 value |-> shapes[i].entries[j].value]]])

InitMulti ==
  /\ ABPerson = <<PersonRow(1, <<<<"A">>, NULL, <<"A">>, NULL, NULL>>),
                  PersonRow(2, <<NULL, NULL, <<"B">>, NULL, NULL>>)>>
  /\ \E shapes \in BoundedSeq(MultiValueShapes, MaxMV) :
       /\ ABMultiValue = MultiValueRows(1, shapes)
       /\ ABMultiValueEntry = MultiValueEntryRows(shapes)
  /\ ABMultiValueLabel = LABELS
  /\ ABMultiValueEntryKey = ENTRY_KEYS
  /\ ABGroup = <<GroupRow(1, <<"G">>)>>
  /\ ABGroupMembers = <<[group_id |-> 1, member_id |-> 2]>>
  /\ preexisting = {}
  /\ Start

SpecMulti == InitMulti /\ [][Next]_vars

(* Text: one contact and one group whose text columns hold commas, line    *)
(* breaks, carriage returns and backslashes.                               *)

TextChars == {"a", COMMA, LF, CR, BACKSLASH}
Texts == BoundedSeq(TextChars, MaxLen)

InitText ==
  /\ \E t1 \in Texts, t2 \in Texts :
       /\ ABPerson = <<[ROWID |-> 1, First |-> t2, Middle |-> NULL, Last |-> <<"A">>,
                        Prefix |-> NULL, Suffix |-> NULL, Nickname |-> t1,
                        Birthday |-> <<"0">>, JobTitle |-> t2, Organization |-> t1,
                        Department |-> t2, Note |-> t1]>>
       /\ ABMultiValue =
            MultiValueRows(1, <<Shape(PROP_RELATED, 0, LabelStr(t2), t1, <<>>),
                                Shape(PROP_ADDRESS, 0, LabelNull, t2,
                                      <<Part(1, t1), Part(2, t2)>>)>>)
       /\ ABMultiValueEntry =
            MultiValueEntryRows(<<Shape(PROP_RELATED, 0, LabelStr(t2), t1, <<>>),
                                  Shape(PROP_ADDRESS, 0, LabelNull, t2,
                                        <<Part(1, t1), Part(2, t2)>>)>>)
       /\ ABGroup = <<GroupRow(1, t1)>>
  /\ ABMultiValueLabel = LABELS
  /\ ABMultiValueEntryKey = ENTRY_KEYS
  /\ ABGroupMembers = <<[group_id |-> 1, member_id |-> 1]>>
  /\ preexisting = {}
  /\ Start

SpecText == InitText /\ [][Next]_vars

----------------------------------------------------------------------------
(* Properties.                                                             *)

LastWrite == written[Len(written)]
PersonOf(row_id) == CHOOSE i \in 1..Len(ABPerson) : ABPerson[i].ROWID = row_id
ContactWritten(i) == written[i].kind = "contact"
WrittenPerson(i) == ABPerson[PersonOf(written[i].row)]
\* The file written last is the card of a contact.
LastIsContact == written # <<>> /\ LastWrite.kind = "contact"

\* The paths that exist when the i-th file of the run is opened.
FilesBefore(i) == preexisting \cup {written[j].path : j \in 1..(i - 1)}

\* '<base>.vcf', '<base> - 2.vcf', '<base> - 3.vcf', ...
NthName(base_fn, k) == IF k = 1 THEN base_fn \o s_vcf ELSE Numbered(base_fn, k)
NameFamily(base_fn) ==
  {NthName(base_fn, k) : k \in 1..(Cardinality(preexisting) + Len(written) + 1)}

\* The i-th write is the Rank(i)-th of its base name in its directory.
Rank(i) ==
  Cardinality({j \in 1..i : written[j].dir = written[i].dir
                              /\ written[j].base_fn = written[i].base_fn})

\* The directory of the i-th write holds no file of its base name at the start.
NoneInitially(i) ==
  \A p \in preexisting : ~(p.dir = written[i].dir /\ p.name \in NameFamily(written[i].base_fn))

\* No earlier record of another base name was written to a name of this family.
NoneTaken(i) ==
  \A j \in 1..(i - 1) :
     (written[j].dir = written[i].dir /\ written[j].base_fn # written[i].base_fn)
       => written[j].path.name \notin NameFamily(written[i].base_fn)

\* C1 as stated: no write opens an existing path, and the k-th record of a base
\* name, in a directory that initially has no file of that base name, is
\* written to '<base>.vcf' for k = 1 and to '<base> - k.vcf' otherwise.
C1_KthRecordGetsSuffixK ==
  \A i \in 1..Len(written) :
     /\ ~written[i].existed
     /\ NoneInitially(i) => written[i].path.name = NthName(written[i].base_fn, Rank(i))

\* C1 (amended): no write opens an existing path; every record is written, in
\* its own directory, to the first name of '<base>.vcf', '<base> - 2.vcf',
\* '<base> - 3.vcf', ... that does not exist at that moment; and the k-th record
\* of a base name gets the k-th of these names when the directory initially
\* holds none of them and no record of another base name has taken one.
C1_NeverOverwritesFirstFreeName ==
  \A i \in 1..Len(written) :
     /\ ~written[i].existed
     /\ written[i].path \notin FilesBefore(i)
     /\ written[i].path.dir = written[i].dir
     /\ \E k \in 1..(Cardinality(preexisting) + Len(written) + 1) :
          /\ written[i].path.name = NthName(written[i].base_fn, k)
          /\ \A n \in 1..(k - 1) :
               [abs |-> TRUE, dir |-> written[i].dir, name |-> NthName(written[i].base_fn, n)]
                 \in FilesBefore(i)
     /\ (NoneInitially(i) /\ NoneTaken(i))
          => written[i].path.name = NthName(written[i].base_fn, Rank(i))

\* Three records of one base name were written into one directory, the third
\* as '<base> - 3.vcf', and another record was written to a name that existed
\* before the run under a counter.
C1_Witness ==
  /\ \E i \in 1..Len(written) :
       Rank(i) = 3 /\ written[i].path.name = Numbered(written[i].base_fn, 3)
  /\ \E i \in 1..Len(written) :
       ~NoneInitially(i) /\ written[i].path.name # written[i].base_fn \o s_vcf

NoNameComponents(row) ==
  ~(Truthy(row.First) \/ Truthy(row.Middle) \/ Truthy(row.Last)
      \/ Truthy(row.Prefix) \/ Truthy(row.Suffix))

\* C2 as stated: a written contact without name components has the filename
\* basis 'UNNAMED' and an FN line whose value is non-empty.
C2_UnnamedHasNonEmptyFN ==
  (LastIsContact /\ NoNameComponents(WrittenPerson(Len(written))))
    => /\ LastWrite.base_fn = s_UNNAMED
       /\ \E i \in 1..Len(card.lines) :
            StartsWith(card.lines[i], s_FN) /\ Len(card.lines[i]) > Len(s_FN)

IsSpace(c) == c \in {" ", "\t", LF, CR}

\* s.strip()
RECURSIVE Strip(_)
Strip(x) ==
  IF x = <<>> THEN x
  ELSE IF IsSpace(Head(x)) THEN Strip(Tail(x))
  ELSE IF IsSpace(x[Len(x)]) THEN Strip(SubSeq(x, 1, Len(x) - 1))
  ELSE x

\* C10 as stated: the filename basis of every written contact is its present
\* first, middle and last names joined by single spaces and trimmed, without
\* leading or trailing whitespace, and 'UNNAMED' when all three are absent.
C10_BasisIsTrimmedJoin ==
  \A i \in 1..Len(written) :
     ContactWritten(i) =>
       LET row == WrittenPerson(i)
           joined == Strip(Join(Present(<<row.First, row.Middle, row.Last>>), <<" ">>))
       IN /\ written[i].base_fn = (IF joined = <<>> THEN s_UNNAMED ELSE joined)
          /\ ~IsSpace(written[i].base_fn[1])
          /\ ~IsSpace(written[i].base_fn[Len(written[i].base_fn)])

\* The contact whose row the contact loop took last, and its multi-value rows.
TakenPerson == ABPerson[person_pos]
TakenRows == MultiValuesOf(TakenPerson.ROWID)
\* The card written last is the card of the contact taken last.
CardIsOfTaken ==
  LastIsContact /\ person_pos >= 1 /\ LastWrite.row = TakenPerson.ROWID
\* The multi-value scan of the contact taken last ran to its end.
ScanCompleted == person_pos >= 1 /\ exception # NO_STARTSWITH

Range(f) == {f[i] : i \in DOMAIN f}

HasMessage(level, msg) == \E i \in 1..Len(log) : log[i] = Message(level, msg)

\* C3 as stated: when the scan of a contact leaves an address or IM index with
\* neither label nor field, a warning is emitted, the run continues and the
\* contact's file is written.
C3_EmptyIndexIsSkippedWithWarning ==
  (ScanCompleted /\ \E b \in Range(address) \cup Range(im) : InvalidBucket(b))
    => /\ status = "running"
       /\ CardIsOfTaken
       /\ \/ HasMessage("WARNING", "Left out invalid address")
          \/ HasMessage("WARNING", "Left out invalid IM entry")

\* The values a multi-value row offers to the scan: its own value when it has
\* no sub-entries, the values of its sub-entries otherwise.
ValuesOf(m) ==
  IF EntriesOf(m) = <<>> THEN <<m.value>>
  ELSE [j \in 1..Len(EntriesOf(m)) |-> EntriesOf(m)[j].value]

Valueless(m) == \A j \in 1..Len(ValuesOf(m)) : ~Truthy(ValuesOf(m)[j])

IsAddrLine(x) == StartsWith(x, s_ADDR)

ValuedAddressIds ==
  {TakenRows[i].identifier : i \in {j \in 1..Len(TakenRows) :
      TakenRows[j].property = PROP_ADDRESS /\ ~Valueless(TakenRows[j])}}

C7_LabelResolutionNeverFails ==
  person_pos >= 1 =>
    \A i \in 1..Len(TakenRows) :
       LET m == TakenRows[i]
           token == IF LabelTruthy(m.label) THEN LabelToStr(m.label) ELSE <<>>
       IN (~LabelTruthy(m.label) \/ LabelRows(m.label) = {}) =>
            /\ exception # NO_STARTSWITH
            /\ (CardIsOfTaken /\ m.property = PROP_PHONE /\ Truthy(m.value))
                 => s_TEL \o token \o <<":">> \o m.value \in Range(card.lines)

\* The kind of a multi-value line, numbered in the order TEL, EMAIL,
\* ANNIVERSARY, URL, RELATED, ADDR, IMPP; 0 for any other line.
KindOfLine(x) ==
  IF StartsWith(x, s_TEL) THEN 1
  ELSE IF StartsWith(x, s_EMAIL) THEN 2
  ELSE IF StartsWith(x, s_ANNIVERSARY) THEN 3
  ELSE IF StartsWith(x, s_URL) THEN 4
  ELSE IF StartsWith(x, s_RELATED) THEN 5
  ELSE IF StartsWith(x, s_ADDR) THEN 6
  ELSE IF StartsWith(x, s_IMPP) THEN 7
  ELSE 0

KindOfProperty(p) ==
  IF p = PROP_PHONE THEN 1
  ELSE IF p = PROP_EMAIL THEN 2
  ELSE IF p = PROP_DATE THEN 3
  ELSE IF p = PROP_URL THEN 4
  ELSE IF p = PROP_RELATED THEN 5
  ELSE 0

\* The kinds of the single-valued lines of a card, in the order of its lines.
RECURSIVE SingleKinds(_)
SingleKinds(lines) ==
  IF lines = <<>> THEN <<>>
  ELSE (IF KindOfLine(Head(lines)) \in 1..5 THEN <<KindOfLine(Head(lines))>> ELSE <<>>)
         \o SingleKinds(Tail(lines))

\* The kinds of the single-valued rows that carry a value, in row order, one
\* per value.
RECURSIVE KindsOfValues(_, _)
KindsOfValues(m, values) ==
  IF values = <<>> THEN <<>>
  ELSE (IF (IF m.property = PROP_DATE THEN IsNumeral(Head(values)) ELSE Truthy(Head(values)))
        THEN <<KindOfProperty(m.property)>> ELSE <<>>)
         \o KindsOfValues(m, Tail(values))

RECURSIVE KindsOfRows(_)
KindsOfRows(rows) ==
  IF rows = <<>> THEN <<>>
  ELSE (IF KindOfProperty(Head(rows).property) = 0 THEN <<>>
        ELSE KindsOfValues(Head(rows),
                           IF EntriesOf(Head(rows)) = <<>>
                           THEN <<IF Truthy(Head(rows).value) THEN Head(rows).value ELSE <<>> >>
                           ELSE ValuesOf(Head(rows))))
         \o KindsOfRows(Tail(rows))

\* C8 as stated: in every contact card the multi-value lines are grouped by
\* kind in the order TEL, EMAIL, ANNIVERSARY, URL, RELATED, ADDR, IMPP.
C8_LinesGroupedByKind ==
  LastIsContact =>
    \A i, j \in 1..Len(card.lines) :
       (i < j /\ KindOfLine(card.lines[i]) > 0 /\ KindOfLine(card.lines[j]) > 0)
         => KindOfLine(card.lines[i]) <= KindOfLine(card.lines[j])

\* C8 (amended): in every contact card the ADDR lines come after every TEL,
\* EMAIL, ANNIVERSARY, URL and RELATED line and the IMPP lines after every ADDR
\* line, whatever the order of the rows; the TEL, EMAIL, ANNIVERSARY, URL and
\* RELATED lines are not grouped by kind but appear in the order in which the
\* data source returns the rows that produce them.
C8_SingleValuedInRowOrderThenAddrThenImpp ==
  LastIsContact =>
    /\ \A i, j \in 1..Len(card.lines) :
         (i < j /\ KindOfLine(card.lines[j]) \in 1..5) => KindOfLine(card.lines[i]) \notin {6, 7}
    /\ \A i, j \in 1..Len(card.lines) :
         (i < j /\ KindOfLine(card.lines[j]) = 6) => KindOfLine(card.lines[i]) # 7
    /\ SingleKinds(card.lines) = KindsOfRows(MultiValuesOf(LastWrite.row))

\* A card with an EMAIL line before a TEL line and an ADDR line after both,
\* made from rows in which the address came first.
C8_Witness ==
  /\ CardIsOfTaken
  /\ TakenRows # <<>> /\ TakenRows[1].property = PROP_ADDRESS
  /\ \E i, j, k \in 1..Len(card.lines) :
       /\ i < j /\ j < k
       /\ KindOfLine(card.lines[i]) = 2
       /\ KindOfLine(card.lines[j]) = 1
       /\ KindOfLine(card.lines[k]) = 6

PersonIds == {ABPerson[i].ROWID : i \in 1..Len(ABPerson)}

\* The group whose row the group loop took last and its membership rows, in
\* the order they were recorded.
TakenGroup == ABGroup[group_pos]
MembershipOf(g) ==
  LET Mine(m) == m.group_id = g.ROWID
  IN SelectSeq(ABGroupMembers, Mine)

IsMemberLine(x) == StartsWith(x, s_MEMBER)
MemberLinesOfCard == SelectSeq(card.lines, IsMemberLine)

\* C5 as stated: for a named group, whatever its row id, whose members are
\* contacts of the person table, the group card is written with exactly one
\* line 'MEMBER:urn:uuid:<uid>' per membership row, in the order recorded,
\* <uid> being the identifier generated for the member's contact row.
C5_OneMemberLinePerMembership ==
  (group_pos >= 1 /\ Truthy(TakenGroup.Name)
     /\ \A i \in 1..Len(MembershipOf(TakenGroup)) :
          MembershipOf(TakenGroup)[i].member_id \in PersonIds)
    => /\ status = "running"
       /\ written # <<>>
       /\ LastWrite.kind = "group"
       /\ LastWrite.row = TakenGroup.ROWID
       /\ MemberLinesOfCard =
            [i \in 1..Len(MembershipOf(TakenGroup)) |->
               s_MEMBER \o uid_map[MembershipOf(TakenGroup)[i].member_id]]

\* C9: a group row is taken only when the contact loop has taken every row
\* of the person table and the identifier map holds an entry for each of
\* them, and no step changes the map once the group loop is reached.
C9_ContactsBeforeGroups ==
  /\ [][group_pos' # group_pos
          => (person_pos = Len(ABPerson) /\ DOMAIN uid_map = PersonIds)]_vars
  /\ [][(group_pos' # group_pos \/ group_pos > 0) => uid_map' = uid_map]_vars

\* Both groups of a run were taken after two contacts, and the second group's
\* card names a member.
C9_Witness ==
  /\ Len(ABPerson) = 2
  /\ group_pos = 2
  /\ status = "running"
  /\ written # <<>> /\ LastWrite.kind = "group"
  /\ MemberLinesOfCard # <<>>

\* A value as the card renders it: a line break becomes backslash and 'n', a
\* carriage return disappears and, where commas are escaped, a comma gets a
\* backslash before it.
RECURSIVE Rendered(_, _)
Rendered(x, commas) ==
  IF x = <<>> THEN <<>>
  ELSE (IF Head(x) = LF THEN <<BACKSLASH, "n">>
        ELSE IF Head(x) = CR THEN <<>>
        ELSE IF Head(x) = COMMA /\ commas THEN <<BACKSLASH, COMMA>>
        ELSE <<Head(x)>>) \o Rendered(Tail(x), commas)

Count(x, c) == Cardinality({i \in 1..Len(x) : x[i] = c})

\* C6: in every written contact or group file no line holds a raw line break
\* or carriage return, the CR LF pairs of the file are exactly the ends of its
\* lines, and the NICKNAME, TITLE, ORG, NOTE and RELATED values (and the FN
\* value of a group) are rendered with line breaks as backslash 'n', carriage
\* returns removed and every comma preceded by a backslash.
C6_NoRawLineBreakInAField ==
  written # <<>> =>
    /\ \A i \in 1..Len(card.lines) : LF \notin Range(card.lines[i]) /\ CR \notin Range(card.lines[i])
    /\ Count(card.text, LF) = Len(card.lines)
    /\ Count(card.text, CR) = Len(card.lines)
    /\ \A i \in 1..Len(card.text) :
         /\ card.text[i] = CR => (i < Len(card.text) /\ card.text[i + 1] = LF)
         /\ card.text[i] = LF => (i > 1 /\ card.text[i - 1] = CR)
    /\ card.text[Len(card.text)] = LF
    /\ LastWrite.kind = "group" =>
         s_FN \o Rendered(ABGroup[group_pos].Name, FALSE) \in Range(card.lines)
    /\ LastWrite.kind = "contact" =>
         LET row == WrittenPerson(Len(written))
             rows == MultiValuesOf(row.ROWID)
         IN /\ Truthy(row.Nickname)
                 => s_NICKNAME \o Rendered(row.Nickname, TRUE) \in Range(card.lines)
            /\ Truthy(row.JobTitle)
                 => s_TITLE \o Rendered(row.JobTitle, TRUE) \in Range(card.lines)
            /\ Truthy(row.Note)
                 => s_NOTE \o Rendered(row.Note, TRUE) \in Range(card.lines)
            /\ (Truthy(row.Organization) /\ Truthy(row.Department))
                 => s_ORG \o Rendered(row.Organization, TRUE) \o <<";">>
                      \o Rendered(row.Department, TRUE) \in Range(card.lines)
            /\ \A i \in 1..Len(rows) :
                 (rows[i].property = PROP_RELATED /\ Truthy(rows[i].value))
                   => \E j \in 1..Len(card.lines) :
                        /\ card.lines[j] =
                             s_RELATED \o Rendered(ResolveLabel(rows[i]).value_type, FALSE)
                               \o s_VALUETEXT \o Rendered(rows[i].value, TRUE)
                        /\ \A k \in 1..Len(card.lines[j]) :
                             (k > Len(card.lines[j]) - Len(Rendered(rows[i].value, TRUE))
                                /\ card.lines[j][k] = COMMA)
                               => card.lines[j][k - 1] = BACKSLASH
            /\ \A j \in 1..Len(card.lines) :
                 (\E x \in {s_NICKNAME, s_TITLE, s_ORG, s_NOTE} : StartsWith(card.lines[j], x))
                   => \A k \in 1..Len(card.lines[j]) :
                        card.lines[j][k] = COMMA => card.lines[j][k - 1] = BACKSLASH

\* A contact card was written whose note holds a comma and a line break and
\* whose job title holds a carriage return.
C6_Witness ==
  /\ LastIsContact
  /\ COMMA \in Range(WrittenPerson(Len(written)).Note)
  /\ LF \in Range(WrittenPerson(Len(written)).Note)
  /\ CR \in Range(WrittenPerson(Len(written)).JobTitle)

\* A name column as the claim renders it: NULL is the empty string.
Blank(x) == IF x = NULL THEN <<>> ELSE x

\* C11 as stated: in the N line of a written contact every component (last,
\* first, middle, prefix, suffix) that is NULL in the person row is empty, so
\* a contact whose only name column is First = 'A' has the line 'N:;A;;;'.
C11_NullNameComponentIsEmpty ==
  (LastIsContact /\ ~NoNameComponents(WrittenPerson(Len(written))))
    => LET row == WrittenPerson(Len(written))
       IN s_N \o Blank(row.Last) \o <<";">> \o Blank(row.First) \o <<";">>
            \o Blank(row.Middle) \o <<";">> \o Blank(row.Prefix) \o <<";">>
            \o Blank(row.Suffix) \in Range(card.lines)

====
